---- MODULE Spec2Model ----
(***************************************************************************)
(* A model of libsmt.rs' SMT-LIB2 backend (src/backends/smtlib2.rs):       *)
(* the assertion graph with its variable registries, the serializer        *)
(* (generate_asserts / expand_assertion), the solver orchestration         *)
(* (check_sat / solve and their timeout variants), the model parser and    *)
(* the default SMTProc::read.                                              *)
(*                                                                         *)
(* Text (Rust String) is a sequence of one-character strings, so that      *)
(* format!, ==, the regex and the number parsers are computed on           *)
(* characters.                                                             *)
(***************************************************************************)
EXTENDS Integers, Sequences, FiniteSets, TLC

\* ------------------------------------------------------------- bounds
\* Nodes a session may add to its graph.
MaxNodes == 3
\* The same, for a session that also talks to a solver.
MaxSessionNodes == 2
\* Size of the graph a session may build: nodes plus edges.
MaxSize == 5
\* the clock of a read stops here
MaxClock == 4

VARIABLES
    logic,      \* SMTLib2.logic: Option<L>
    nodes,      \* SMTLib2.gr, node weights; NodeIndex i is nodes[i + 1]
    edges,      \* SMTLib2.gr, edges in insertion order
    var_index,  \* SMTLib2.var_index
    var_map,    \* SMTLib2.var_map: name -> (NodeIndex, sort)
    idx_map,    \* SMTLib2.idx_map: NodeIndex -> name
    newVarLog,  \* history: the new_var calls made so far, in order
    last,       \* history: the most recent call, its I/O and its result
    proc        \* the SMTProc: its pipe, and the read in progress on it

vars == <<logic, nodes, edges, var_index, var_map, idx_map, newVarLog, last, proc>>

\* the session without the record of its last call
Session == <<logic, nodes, edges, var_index, var_map, idx_map, newVarLog>>

\* ------------------------------------------------------------- text
\* Option<String>
NoName == [some |-> FALSE, v |-> <<>>]
SomeName(s) == [some |-> TRUE, v |-> s]
\* Option<L>: no logic configured
NoLogic == "none"

RECURSIVE Flatten(_)
Flatten(ss) == IF ss = <<>> THEN <<>> ELSE Head(ss) \o Flatten(Tail(ss))

Range(f) == {f[x] : x \in DOMAIN f}

\* All enumerations (as sequences) of the finite set S.
Perms(S) ==
    {p \in [1..Cardinality(S) -> S] : \A i, j \in DOMAIN p : p[i] = p[j] => i = j}

DigitChars == <<"0", "1", "2", "3", "4", "5", "6", "7", "8", "9">>

\* format!("{}", n) for an unsigned integer.
RECURSIVE FormatUsize(_)
FormatUsize(n) ==
    IF n < 10 THEN <<DigitChars[n + 1]>>
    ELSE FormatUsize(n \div 10) \o <<DigitChars[(n % 10) + 1]>>

\* ------------------------------------------------------------- theory
\* The Logic / SMTNode collaborators: a small theory with two sorts, a
\* boolean and a non-boolean operator and a constant.
Sorts == {"Int", "Bool"}

SortToString(ty) ==
    IF ty = "Int" THEN <<"I", "n", "t">> ELSE <<"B", "o", "o", "l">>

LogicToString(l) == <<"Q", "F", "_", "L", "I", "A">>

FreeVar(name, ty) ==
    [text |-> name, isVar |-> TRUE, isConst |-> FALSE, isBool |-> ty = "Bool"]

EqFn == [text |-> <<"=">>, isVar |-> FALSE, isConst |-> FALSE, isBool |-> TRUE]
AddFn == [text |-> <<"+">>, isVar |-> FALSE, isConst |-> FALSE, isBool |-> FALSE]
FiveConst == [text |-> <<"5">>, isVar |-> FALSE, isConst |-> TRUE, isBool |-> FALSE]

NodeToString(n) == n.text
is_var(n) == n.isVar
is_const(n) == n.isConst
is_fn(n) == ~is_var(n) /\ ~is_const(n)
is_bool(n) == n.isBool

\* ------------------------------------------------------------- inputs
NameA == <<"a">>
NameX2 == <<"X", "_", "2">>

NodeIndices == 0..(Len(nodes) - 1)

GraphSize == Len(nodes) + Len(edges)

\* the operand lists, of handles the session has issued, that fit the graph
OperandLists ==
    UNION {[1..k -> NodeIndices] : k \in 0..(MaxSize - GraphSize - 1)}

\* ------------------------------------------------------------- history
\* a call: its name, its argument, the writes and reads it made on the
\* solver's pipes, in order, and what it returned
Call(op, arg, io, ret) == [op |-> op, arg |-> arg, io |-> io, ret |-> ret]

Built(op, idx) == Call(op, 0, <<>>, [tag |-> "idx", val |-> idx])

Panicked == last.ret.tag = "panic"

\* ------------------------------------------------------------- graph store
\* SMTLib2::new(logic)
new(Logics) ==
    /\ logic \in Logics
    /\ nodes = <<>>
    /\ edges = <<>>
    /\ var_index = 0
    /\ var_map = <<>>
    /\ idx_map = <<>>
    /\ newVarLog = <<>>
    /\ last = Call("new", 0, <<>>, [tag |-> "unit", val |-> 0])

\* a HashMap insert: the entry under k is added or replaced
MapInsert(m, k, v) == [x \in DOMAIN m \cup {k} |-> IF x = k THEN v ELSE m[x]]

\* (mutant) the counter read without being incremented
StaleVarIndex(given) == var_index

\* unwrap_or's argument is evaluated before unwrap_or is called, whether
\* or not a name was given.
NextVarIndex(given) == var_index + 1

new_var(Given, Tys, cap) ==
    \E given \in Given, ty \in Tys :
        LET vi == NextVarIndex(given)
            generated == <<"X", "_">> \o FormatUsize(vi)
            name == IF given.some THEN given.v ELSE generated
            idx == Len(nodes)
        IN  /\ ~Panicked
            /\ Len(nodes) < cap
            /\ GraphSize + 1 <= MaxSize
            /\ var_index' = vi
            /\ nodes' = Append(nodes, FreeVar(name, ty))
            /\ var_map' = MapInsert(var_map, name, [idx |-> idx, sort |-> ty])
            /\ idx_map' = MapInsert(idx_map, idx, name)
            /\ newVarLog' = Append(newVarLog,
                                   [given |-> given, name |-> name, idx |-> idx])
            /\ last' = Built("new_var", idx)
            /\ UNCHANGED <<logic, edges, proc>>

new_const(Values, cap) ==
    \E cval \in Values :
        /\ ~Panicked
        /\ Len(nodes) < cap
        /\ GraphSize + 1 <= MaxSize
        /\ nodes' = Append(nodes, cval)
        /\ last' = Built("new_const", Len(nodes))
        /\ UNCHANGED <<logic, edges, var_index, var_map, idx_map, newVarLog, proc>>

\* (mutant) the edges drawn from the operands to the new node
EdgesReversed(assertion, ops) ==
    [i \in 1..Len(ops) |-> [source |-> ops[i], target |-> assertion, weight |-> i - 1]]

\* (mutant) the tags counted from 1
EdgesFromOne(assertion, ops) ==
    [i \in 1..Len(ops) |-> [source |-> assertion, target |-> ops[i], weight |-> i]]

\* the edges assert adds for operand list ops under the new node
NewEdges(assertion, ops) ==
    [i \in 1..Len(ops) |-> [source |-> assertion, target |-> ops[i], weight |-> i - 1]]

assert(Values, cap) ==
    \E fn \in Values, ops \in OperandLists :
        LET assertion == Len(nodes)
        IN  /\ ~Panicked
            /\ Len(nodes) < cap
            /\ GraphSize + 1 + Len(ops) <= MaxSize
            /\ nodes' = Append(nodes, fn)
            /\ edges' = edges \o NewEdges(assertion, ops)
            /\ last' = Call("assert", [ops |-> ops], <<>>, [tag |-> "idx", val |-> assertion])
            /\ UNCHANGED <<logic, var_index, var_map, idx_map, newVarLog, proc>>

\* ------------------------------------------------------------- serializer
\* The orders in which the graph store may enumerate the edges of each
\* node: the store promises none. An enumeration lists all edges, those of
\* one node together.
EdgeEnumerations ==
    {enum \in Perms(1..Len(edges)) :
        \A i, j \in 1..Len(edges) :
            i < j => edges[enum[i]].source <= edges[enum[j]].source}

\* gr.edges_directed(ni, Outgoing) mapped to (target, ordinal), in the
\* store's enumeration order
OutgoingChildren(ni, enum) ==
    LET mine == SelectSeq(enum, LAMBDA e : edges[e].source = ni)
    IN  [k \in 1..Len(mine) |-> <<edges[mine[k]].target, edges[mine[k]].weight>>]

\* insertion of pair c into the sorted sequence s, after its equals
RECURSIVE InsertByOrdinal(_, _)
InsertByOrdinal(s, c) ==
    IF s = <<>> THEN <<c>>
    ELSE IF c[2] < Head(s)[2] THEN <<c>> \o s
    ELSE <<Head(s)>> \o InsertByOrdinal(Tail(s), c)

RECURSIVE SortFrom(_, _)
SortFrom(children, acc) ==
    IF children = <<>> THEN acc
    ELSE SortFrom(Tail(children), InsertByOrdinal(acc, Head(children)))

\* (mutant) the sort left out: the children in the store's order
Unsorted(children) == children

\* children.sort_by(|x, y| (x.1).cmp(&y.1)): a stable sort on the ordinal
SortByOrdinal(children) == SortFrom(children, <<>>)

RECURSIVE expand_assertion(_, _)
RECURSIVE ExpandChildren(_, _, _)
ExpandChildren(children, enum, assertion) ==
    IF children = <<>> THEN assertion
    ELSE ExpandChildren(Tail(children), enum,
                        assertion \o <<" ">> \o expand_assertion(Head(children)[1], enum))

expand_assertion(ni, enum) ==
    LET children == SortByOrdinal(OutgoingChildren(ni, enum))
        node == nodes[ni + 1]
        opened == IF is_fn(node) THEN <<"(">> \o NodeToString(node)
                  ELSE NodeToString(node)
        filled == ExpandChildren(children, enum, opened)
    IN  IF is_fn(node) THEN filled \o <<")">> ELSE filled

DeclareFun == <<"(", "d", "e", "c", "l", "a", "r", "e", "-", "f", "u", "n", " ">>
AssertOpen == <<"(", "a", "s", "s", "e", "r", "t", " ">>

\* the registry entries generate_asserts visits: those of var_map
DeclaredNames == DOMAIN var_map

\* the orders in which the HashMap var_map may be iterated
MapIterations == Perms(DeclaredNames)

\* the first loop: one declaration per visited entry whose node is_var
Decls(order) ==
    LET visible == SelectSeq(order, LAMBDA name : is_var(nodes[var_map[name].idx + 1]))
    IN  [k \in 1..Len(visible) |->
            DeclareFun \o visible[k] \o <<" ", "(", ")", " ">>
                \o SortToString(var_map[visible[k]].sort) \o <<")", "\n">>]

HasIncoming(idx) == \E e \in DOMAIN edges : edges[e].target = idx

\* (mutant) the test without the incoming-edge condition
IsBoolFn(idx) == is_fn(nodes[idx + 1]) /\ is_bool(nodes[idx + 1])

\* the test of the second loop
IsAssertionRoot(idx) ==
    /\ ~HasIncoming(idx)
    /\ is_fn(nodes[idx + 1]) /\ is_bool(nodes[idx + 1])

\* the second loop, over gr.node_indices() in ascending order
Assertions(enum) ==
    LET all == [i \in 1..Len(nodes) |-> i - 1]
        roots == SelectSeq(all, IsAssertionRoot)
    IN  [k \in 1..Len(roots) |->
            AssertOpen \o expand_assertion(roots[k], enum) \o <<")", "\n">>]

\* (mutant) the two vectors chained the other way round
AssertsThenDecls(order, enum) == Flatten(Assertions(enum) \o Decls(order))

\* decls.iter().chain(assertions.iter()), concatenated
generate_asserts(order, enum) == Flatten(Decls(order) \o Assertions(enum))

\* whether the store hands some node its edges out of ordinal order
Scrambled(enum) ==
    \E i, j \in DOMAIN enum :
        /\ i < j
        /\ edges[enum[i]].source = edges[enum[j]].source
        /\ edges[enum[i]].weight > edges[enum[j]].weight

CallGenerateAsserts ==
    \E order \in MapIterations, enum \in EdgeEnumerations :
        /\ ~Panicked
        /\ last' = Call("generate_asserts", 0, <<>>,
                        [tag |-> "text", val |-> generate_asserts(order, enum)])
        /\ UNCHANGED <<Session, proc>>

CallExpandAssertion ==
    \E ni \in NodeIndices, enum \in EdgeEnumerations :
        /\ ~Panicked
        /\ last' = Call("expand_assertion", [ni |-> ni, scrambled |-> Scrambled(enum)],
                        <<>>,
                        [tag |-> "text", val |-> expand_assertion(ni, enum)])
        /\ UNCHANGED <<Session, proc>>

\* ------------------------------------------------------------- model parser
Digits == {"0", "1", "2", "3", "4", "5", "6", "7", "8", "9"}
HexDigits == Digits \cup {"a", "b", "c", "d", "e", "f"}
BinDigits == {"0", "1"}
Letters ==
    {"a", "b", "c", "d", "e", "f", "g", "h", "i", "j", "k", "l", "m",
     "n", "o", "p", "q", "r", "s", "t", "u", "v", "w", "x", "y", "z",
     "A", "B", "C", "D", "E", "F", "G", "H", "I", "J", "K", "L", "M",
     "N", "O", "P", "Q", "R", "S", "T", "U", "V", "W", "X", "Y", "Z"}
\* \s
SpaceChars == {" ", "\n", "\t", "\r"}
\* [0-9a-zA-Z_]
VarChars == Digits \cup Letters \cup {"_"}
\* [ _a-zA-Z0-9]
SortChars == VarChars \cup {" "}

\* the end (exclusive) of the longest run of characters of class, from p
RECURSIVE RunEnd(_, _, _)
RunEnd(text, p, class) ==
    IF p <= Len(text) /\ text[p] \in class THEN RunEnd(text, p + 1, class) ELSE p

\* whether the literal lit stands in text at p
LitAt(text, p, lit) ==
    /\ p + Len(lit) - 1 <= Len(text)
    /\ SubSeq(text, p, p + Len(lit) - 1) = lit

\* [(]? and [)]?: the position after an optional character
SkipOpt(text, p, c) == IF p <= Len(text) /\ text[p] = c THEN p + 1 ELSE p

DefineFun == <<"(", "d", "e", "f", "i", "n", "e", "-", "f", "u", "n", " ">>

NoMatch == [ok |-> FALSE, var |-> <<>>, val |-> <<>>, end |-> 0]

\* (?P<val>([0-9]+|#x[0-9a-f]+|#b[01]+)) at p: the end of the value, or p
ValEnd(text, p) ==
    IF RunEnd(text, p, Digits) > p THEN RunEnd(text, p, Digits)
    ELSE IF LitAt(text, p, <<"#", "x">>) /\ RunEnd(text, p + 2, HexDigits) > p + 2
         THEN RunEnd(text, p + 2, HexDigits)
    ELSE IF LitAt(text, p, <<"#", "b">>) /\ RunEnd(text, p + 2, BinDigits) > p + 2
         THEN RunEnd(text, p + 2, BinDigits)
    ELSE p

\* The regular expression of lines 187 and 313, matched from position p:
\* \s+\(define-fun (?P<var>[0-9a-zA-Z_]+) \(\) [(]?[ _a-zA-Z0-9]+[)]?\n\s+(?P<val>...)
\* Each repetition is followed by a character outside its class, so the
\* longest run is the only one that can match.
MatchAt(text, p) ==
    LET a == RunEnd(text, p, SpaceChars)
        b == a + Len(DefineFun)
        c == RunEnd(text, b, VarChars)
        d == c + 4
        e == SkipOpt(text, d, "(")
        f == RunEnd(text, e, SortChars)
        g == SkipOpt(text, f, ")")
        h == RunEnd(text, g + 1, SpaceChars)
        i == ValEnd(text, h)
    IN  IF /\ a > p
           /\ LitAt(text, a, DefineFun)
           /\ c > b
           /\ LitAt(text, c, <<" ", "(", ")", " ">>)
           /\ f > e
           /\ LitAt(text, g, <<"\n">>)
           /\ h > g + 1
           /\ i > h
        THEN [ok |-> TRUE, var |-> SubSeq(text, b, c - 1),
              val |-> SubSeq(text, h, i - 1), end |-> i]
        ELSE NoMatch

\* re.captures_iter(text): the successive leftmost matches, none overlapping
RECURSIVE CapturesIter(_, _)
CapturesIter(text, p) ==
    LET starts == {q \in p..Len(text) : MatchAt(text, q).ok}
    IN  IF starts = {} THEN <<>>
        ELSE LET first == CHOOSE q \in starts : \A o \in starts : q <= o
                 m == MatchAt(text, first)
             IN  <<m>> \o CapturesIter(text, m.end)

\* A u64 is four 16-bit limbs, the least significant first.
LimbBase == 65536
U64Zero == <<0, 0, 0, 0>>

DigitValue(c) ==
    CASE c = "0" -> 0 [] c = "1" -> 1 [] c = "2" -> 2 [] c = "3" -> 3
      [] c = "4" -> 4 [] c = "5" -> 5 [] c = "6" -> 6 [] c = "7" -> 7
      [] c = "8" -> 8 [] c = "9" -> 9 [] c = "a" -> 10 [] c = "b" -> 11
      [] c = "c" -> 12 [] c = "d" -> 13 [] c = "e" -> 14 [] c = "f" -> 15

\* acc.checked_mul(radix) and then checked_add(d): None on overflow
CheckedMulAdd(acc, radix, d) ==
    LET t1 == acc[1] * radix + d
        t2 == acc[2] * radix + (t1 \div LimbBase)
        t3 == acc[3] * radix + (t2 \div LimbBase)
        t4 == acc[4] * radix + (t3 \div LimbBase)
    IN  [ok |-> t4 < LimbBase,
         v |-> <<t1 % LimbBase, t2 % LimbBase, t3 % LimbBase, t4 % LimbBase>>]

\* u64::from_str_radix(digits, radix), the digits already known valid
RECURSIVE FromStrRadix(_, _, _)
FromStrRadix(digits, radix, acc) ==
    IF digits = <<>> THEN [ok |-> TRUE, v |-> acc]
    ELSE LET step == CheckedMulAdd(acc, radix, DigitValue(Head(digits)))
         IN  IF step.ok THEN FromStrRadix(Tail(digits), radix, step.v)
             ELSE [ok |-> FALSE, v |-> U64Zero]

\* (mutant) every token parsed as decimal digits after its prefix
DecodeAllDecimal(val_str) ==
    IF Len(val_str) > 2 /\ SubSeq(val_str, 1, 1) = <<"#">>
    THEN FromStrRadix(SubSeq(val_str, 3, Len(val_str)), 10, U64Zero)
    ELSE FromStrRadix(val_str, 10, U64Zero)

\* the value of a matched token: lines 191-197 and 319-325
DecodeVal(val_str) ==
    IF Len(val_str) > 2 /\ SubSeq(val_str, 1, 2) = <<"#", "x">>
    THEN FromStrRadix(SubSeq(val_str, 3, Len(val_str)), 16, U64Zero)
    ELSE IF Len(val_str) > 2 /\ SubSeq(val_str, 1, 2) = <<"#", "b">>
    THEN FromStrRadix(SubSeq(val_str, 3, Len(val_str)), 2, U64Zero)
    ELSE FromStrRadix(val_str, 10, U64Zero)

PanicRet == [tag |-> "panic", val |-> 0]
OkRet(v) == [tag |-> "ok", val |-> v]
ErrRet(e) == [tag |-> "err", val |-> e]

\* The loop over the matches. unwrap() on a value that does not fit a u64
\* and var_map[vname] on a name that is not registered both panic.
RECURSIVE InsertCaptures(_, _)
InsertCaptures(caps, result) ==
    IF caps = <<>> THEN OkRet(result)
    ELSE LET val == DecodeVal(Head(caps).val)
             vname == Head(caps).var
         IN  IF ~val.ok THEN PanicRet
             ELSE IF vname \notin DOMAIN var_map THEN PanicRet
             ELSE InsertCaptures(Tail(caps),
                                 MapInsert(result, var_map[vname].idx, val.v))

\* parse_solver_output, and the same code inline in solve
parse_solver_output(output) == InsertCaptures(CapturesIter(output, 1), <<>>)

\* ------------------------------------------------------------- solver pipes
NoTimeout == [some |-> FALSE, v |-> 0]
SomeTimeout(t) == [some |-> TRUE, v |-> t]

\* Result<String, SMTError>, what SMTProc::read returns
ReadOk(s) == [ok |-> TRUE, s |-> s, e |-> "none"]
ReadErr(e) == [ok |-> FALSE, s |-> <<>>, e |-> e]

WriteEvent(s) ==
    [kind |-> "write", text |-> s, timeout |-> NoTimeout, res |-> ReadOk(<<>>)]
ReadEvent(timeout, res) ==
    [kind |-> "read", text |-> <<>>, timeout |-> timeout, res |-> res]

CheckSatCmd == <<"(", "c", "h", "e", "c", "k", "-", "s", "a", "t", ")", "\n">>
GetModelCmd == <<"(", "g", "e", "t", "-", "m", "o", "d", "e", "l", ")", "\n">>
SetLogicOpen == <<"(", "s", "e", "t", "-", "l", "o", "g", "i", "c", " ">>
SatLine == <<"s", "a", "t", "\n">>

\* (mutant) the verdict sought at the end of the answer
EndsWithSat(read_string) ==
    /\ Len(read_string) >= Len(SatLine)
    /\ SubSeq(read_string, Len(read_string) - Len(SatLine) + 1, Len(read_string)) = SatLine

\* read_string == "sat\n"
IsSat(read_string) == read_string = SatLine

\* what a call did: its writes and reads, and its result
Done(io, ret) == [io |-> io, ret |-> ret]

\* (mutant) (check-sat) written before the text of the graph
CheckSatFirst(text, r) ==
    LET io == <<WriteEvent(CheckSatCmd), WriteEvent(text), ReadEvent(NoTimeout, r)>>
    IN  IF r.ok THEN Done(io, OkRet(IsSat(r.s)))
        ELSE Done(io, ErrRet("Undefined"))

\* check_sat, text being generate_asserts() and r what the read returns
check_sat(text, r) ==
    LET io == <<WriteEvent(text), WriteEvent(CheckSatCmd), ReadEvent(NoTimeout, r)>>
    IN  IF r.ok THEN Done(io, OkRet(IsSat(r.s)))
        ELSE Done(io, ErrRet("Undefined"))

\* (mutant) the error of the unbounded variant returned
TimeoutAsUndefined(text, timeout, r) ==
    LET io == <<WriteEvent(text), WriteEvent(CheckSatCmd),
                ReadEvent(SomeTimeout(timeout), r)>>
    IN  IF r.ok THEN Done(io, OkRet(IsSat(r.s)))
        ELSE Done(io, ErrRet("Undefined"))

check_sat_with_timeout(text, timeout, r) ==
    LET io == <<WriteEvent(text), WriteEvent(CheckSatCmd),
                ReadEvent(SomeTimeout(timeout), r)>>
    IN  IF r.ok THEN Done(io, OkRet(IsSat(r.s)))
        ELSE Done(io, ErrRet("Timeout"))

\* (mutant) the model requested whatever check_sat answered
GetModelAlways(sat_result) == TRUE

\* neither early return of solve taken: lines 290-294 and 208-212
GoesOnToModel(sat_result) == sat_result.tag = "ok" /\ sat_result.val

\* the early returns of solve
EarlyReturn(sat_result) ==
    IF sat_result.tag # "ok" THEN ErrRet("Undefined") ELSE ErrRet("Unsat")

\* (mutant) the text of the first read after (get-model) parsed
SolveParsesFirstRead(text, r1, r2, r3) ==
    LET cs == check_sat(text, r1)
        io == cs.io \o <<WriteEvent(GetModelCmd), ReadEvent(NoTimeout, r2),
                         ReadEvent(NoTimeout, r3)>>
    IN  IF ~GoesOnToModel(cs.ret) THEN Done(cs.io, EarlyReturn(cs.ret))
        ELSE IF r2.ok THEN Done(io, parse_solver_output(r2.s))
        ELSE Done(io, ErrRet("Undefined"))

\* solve; r1, r2, r3 are what its reads return
solve(text, r1, r2, r3) ==
    LET cs == check_sat(text, r1)
        io == cs.io \o <<WriteEvent(GetModelCmd), ReadEvent(NoTimeout, r2),
                         ReadEvent(NoTimeout, r3)>>
    IN  IF ~GoesOnToModel(cs.ret) THEN Done(cs.io, EarlyReturn(cs.ret))
        ELSE IF r3.ok THEN Done(io, parse_solver_output(r3.s))
        ELSE Done(io, ErrRet("Undefined"))

\* solve_with_timeout: its check is self.check_sat(smt_proc), line 206
solve_with_timeout(text, timeout, r1, r2, r3) ==
    LET cs == check_sat(text, r1)
        io == cs.io \o <<WriteEvent(GetModelCmd), ReadEvent(SomeTimeout(timeout), r2),
                         ReadEvent(SomeTimeout(timeout), r3)>>
    IN  IF ~GoesOnToModel(cs.ret) THEN Done(cs.io, EarlyReturn(cs.ret))
        ELSE IF r3.ok THEN Done(io, parse_solver_output(r3.s))
        ELSE Done(io, ErrRet("Timeout"))

\* the model text of a solver: one define-fun block per reported symbol
BlockText(b) ==
    <<" ", " ">> \o DefineFun \o b.name \o <<" ", "(", ")", " ">> \o b.sort
        \o <<"\n", " ", " ", " ", " ">> \o b.val \o <<")", "\n">>

ModelText(blocks) ==
    <<"(", "m", "o", "d", "e", "l", " ", "\n">>
        \o Flatten([k \in 1..Len(blocks) |-> BlockText(blocks[k])]) \o <<")", "\n">>

\* (mutant) the logic taken out of the session as it is written
SetLogicTaking ==
    /\ ~Panicked
    /\ last' = Call("set_logic", 0,
                    IF logic = NoLogic THEN <<>>
                    ELSE <<WriteEvent(SetLogicOpen \o LogicToString(logic) \o <<")", "\n">>)>>,
                    [tag |-> "unit", val |-> 0])
    /\ logic' = NoLogic
    /\ UNCHANGED <<nodes, edges, var_index, var_map, idx_map, newVarLog, proc>>

set_logic ==
    /\ ~Panicked
    /\ last' = Call("set_logic", 0,
                    IF logic = NoLogic THEN <<>>
                    ELSE <<WriteEvent(SetLogicOpen \o LogicToString(logic) \o <<")", "\n">>)>>,
                    [tag |-> "unit", val |-> 0])
    /\ UNCHANGED <<Session, proc>>

\* What the solver answers to the reads of one solve: to the read after
\* (check-sat), and to the two reads after (get-model), the second being
\* the model of blocks or an error. A solver that does not answer "sat\n"
\* is asked nothing more, so one plan is kept for each such answer.
ReadPlans(Reads, Acks, BlockLists, Errors) ==
    LET all ==
            {[r1 |-> r, r2 |-> a, blocks |-> bs, r3 |-> ReadOk(ModelText(bs))] :
                r \in Reads, a \in Acks, bs \in BlockLists}
            \cup {[r1 |-> r, r2 |-> a, blocks |-> <<>>, r3 |-> ReadErr(e)] :
                r \in Reads, a \in Acks, e \in Errors}
    IN  {plan \in all :
            \/ plan.r1 = ReadOk(SatLine)
            \/ (plan.r2 = ReadOk(<<>>) /\ plan.blocks = <<>> /\ plan.r3.ok)}

\* the text a call of generate_asserts() may return in the current state
GeneratedTexts ==
    {generate_asserts(order, enum) : order \in MapIterations, enum \in EdgeEnumerations}

CheckSat(Reads) ==
    \E text \in GeneratedTexts, r \in Reads :
        LET done == check_sat(text, r)
        IN  /\ ~Panicked
            /\ last' = Call("check_sat", [timeout |-> NoTimeout], done.io, done.ret)
            /\ UNCHANGED <<Session, proc>>

CheckSatWithTimeout(Times, Reads) ==
    \E text \in GeneratedTexts, r \in Reads, timeout \in Times :
        LET done == check_sat_with_timeout(text, timeout, r)
        IN  /\ ~Panicked
            /\ last' = Call("check_sat_with_timeout", [timeout |-> SomeTimeout(timeout)],
                            done.io, done.ret)
            /\ UNCHANGED <<Session, proc>>

Solve(Plans) ==
    \E text \in GeneratedTexts, plan \in Plans :
        LET done == solve(text, plan.r1, plan.r2, plan.r3)
        IN  /\ ~Panicked
            /\ last' = Call("solve", [timeout |-> NoTimeout, blocks |-> plan.blocks],
                            done.io, done.ret)
            /\ UNCHANGED <<Session, proc>>

SolveWithTimeout(Times, Plans) ==
    \E text \in GeneratedTexts, plan \in Plans, timeout \in Times :
        LET done == solve_with_timeout(text, timeout, plan.r1, plan.r2, plan.r3)
        IN  /\ ~Panicked
            /\ last' = Call("solve_with_timeout",
                            [timeout |-> SomeTimeout(timeout), blocks |-> plan.blocks],
                            done.io, done.ret)
            /\ UNCHANGED <<Session, proc>>

\* ------------------------------------------------------------- the default read
\* SMTProc::read as the trait implements it, step by step. Time is counted
\* in milliseconds from the call, and passes only while the caller is
\* blocked.

\* the child does not write within the life of the call
Silent == [answers |-> FALSE, after |-> 0, text |-> <<>>]
\* the child writes text to its stdout, after milliseconds from the call
Answers(after, text) == [answers |-> TRUE, after |-> after, text |-> text]

NotReturned == [ok |-> FALSE, s |-> <<>>, e |-> "pending"]

\* SMTProc::init: the process is spawned, its stdout piped or not
init(Stdouts) ==
    \E stdout \in Stdouts :
        proc = [stdout |-> stdout, pc |-> "idle", timeout |-> NoTimeout,
                child |-> Silent, elapsed |-> 0, waited |-> 0, sent |-> 0,
                s |-> <<>>, ret |-> NotReturned]

InRead == proc.pc \in {"stdout.read", "recv"}

\* lines 46-56: the buffer, s and the channel are made; with a stdout the
\* caller goes on to read it, without one to the wait on the channel
ReadCall(Times, Children) ==
    \E timeout \in Times, child \in Children :
        /\ proc.pc \in {"idle", "returned"}
        /\ proc' = [proc EXCEPT !.pc = IF proc.stdout THEN "stdout.read" ELSE "recv",
                                !.timeout = timeout, !.child = child,
                                !.elapsed = 0, !.waited = 0, !.sent = 0,
                                !.s = <<>>, !.ret = NotReturned]
        /\ UNCHANGED <<Session, last>>

\* the child has written by now
HasOutput == proc.child.answers /\ proc.child.after <= proc.elapsed

\* a millisecond passes with the caller blocked: in stdout.read() until the
\* child writes, in recv() or recv_timeout() on the empty channel until the
\* duration is over
Blocked ==
    \/ proc.pc = "stdout.read" /\ ~HasOutput
    \/ /\ proc.pc = "recv"
       /\ proc.sent = 0
       /\ proc.timeout.some => proc.waited < proc.timeout.v

Tick ==
    /\ Blocked
    /\ proc.elapsed < MaxClock
    /\ proc' = [proc EXCEPT !.elapsed = @ + 1,
                            !.waited = IF proc.pc = "recv" THEN @ + 1 ELSE @]
    /\ UNCHANGED <<Session, last>>

\* lines 57-62: stdout.read() returns in the caller's thread once there are
\* bytes; they are appended to s and true is sent on the channel
StdoutRead ==
    /\ proc.pc = "stdout.read"
    /\ HasOutput
    /\ proc' = [proc EXCEPT !.pc = "recv", !.s = proc.s \o proc.child.text,
                            !.sent = 1]
    /\ UNCHANGED <<Session, last>>

\* recv_timeout(d) finds the channel empty after d milliseconds
RecvExpired == proc.waited >= proc.timeout.v

\* lines 65-75: recv_timeout(timeout) or recv() takes the message sent, or
\* recv_timeout gives up; recv() on the empty channel does not return, the
\* sender being alive until read does
Recv ==
    /\ proc.pc = "recv"
    /\ IF proc.sent > 0
       THEN proc' = [proc EXCEPT !.pc = "returned", !.sent = 0, !.ret = ReadOk(proc.s)]
       ELSE /\ proc.timeout.some
            /\ RecvExpired
            /\ proc' = [proc EXCEPT !.pc = "returned", !.ret = ReadErr("Timeout")]
    /\ UNCHANGED <<Session, last>>

\* ------------------------------------------------------------- specifications
Anonymous == {NoName}
Named(S) == {SomeName(s) : s \in S}

\* the graph store and the serializer
Init == new({"QF_LIA"}) /\ init({TRUE})

Next ==
    \/ new_var(Anonymous, {"Int"}, MaxNodes)
    \/ new_var(Named({NameA}), Sorts, MaxNodes)
    \/ new_const({FiveConst}, MaxNodes)
    \/ assert({EqFn, AddFn}, MaxNodes)
    \/ CallGenerateAsserts
    \/ CallExpandAssertion

Spec == Init /\ [][Next]_vars

\* ------------------------------------------------------------- a session with a solver
UnsatLine == <<"u", "n", "s", "a", "t", "\n">>

\* what the solver may answer to (check-sat): the two verdicts, nothing, a
\* partial verdict, an error message
VerdictTexts ==
    {SatLine, UnsatLine, <<>>, <<"s", "a">>,
     <<"(", "e", "r", "r", "o", "r", ")", "\n">>}

ReadErrors == {"Timeout"}

VerdictReads == {ReadOk(t) : t \in VerdictTexts} \cup {ReadErr(e) : e \in ReadErrors}

\* what the first read after (get-model) may return
AckReads == {ReadOk(<<>>), ReadErr("Timeout")}

\* timeouts, in milliseconds
Timeouts == {100}

Block(name, sort, val) == [name |-> name, sort |-> sort, val |-> val]

NameX1 == <<"X", "_", "1">>

\* the models of a solver that reports X_1 or nothing
SmallModels == {<<>>, <<Block(NameX1, SortToString("Int"), <<"1", "0">>)>>}

SessionPlans == ReadPlans(VerdictReads, AckReads, SmallModels, {"Timeout"})

InitSession == new({NoLogic, "QF_LIA"}) /\ init({TRUE})

NextSession ==
    \/ new_var(Anonymous, {"Int"}, MaxSessionNodes)
    \/ new_const({FiveConst}, MaxSessionNodes)
    \/ assert({EqFn}, MaxSessionNodes)
    \/ set_logic
    \/ CallGenerateAsserts
    \/ CallExpandAssertion
    \/ CheckSat(VerdictReads)
    \/ CheckSatWithTimeout(Timeouts, VerdictReads)
    \/ Solve(SessionPlans)
    \/ SolveWithTimeout(Timeouts, SessionPlans)

SpecSession == InitSession /\ [][NextSession]_vars

\* ------------------------------------------------------------- a read of the pipe
ReadTimeouts == {NoTimeout} \cup {SomeTimeout(t) : t \in 0..(MaxClock - 2)}

Children ==
    {Silent} \cup {Answers(after, text) : after \in 0..(MaxClock - 1),
                                          text \in {SatLine, UnsatLine}}

InitRead == new({"QF_LIA"}) /\ init(BOOLEAN)

NextRead ==
    \/ ReadCall(ReadTimeouts, Children)
    \/ Tick
    \/ StdoutRead
    \/ Recv

SpecRead == InitRead /\ [][NextRead]_vars

\* ------------------------------------------------------------- a session that reads models
BitVecSort == <<"(", "_", " ", "B", "i", "t", "V", "e", "c", " ", "3", "2", ")">>

\* what a solver prints for a value, with the sort it prints before it; the
\* last one is 2^64
ReportedValues ==
    {[sort |-> SortToString("Int"), val |-> <<"1", "0">>],
     [sort |-> BitVecSort, val |-> <<"#", "x", "0", "0", "0", "0", "0", "0", "0", "a">>],
     [sort |-> BitVecSort, val |-> <<"#", "x", "1", "0">>],
     [sort |-> BitVecSort, val |-> <<"#", "b", "1">>],
     [sort |-> SortToString("Bool"), val |-> <<"t", "r", "u", "e">>]}

TooLarge ==
    <<"1", "8", "4", "4", "6", "7", "4", "4", "0", "7", "3", "7", "0", "9", "5", "5",
      "1", "6", "1", "6">>

AuxName == <<"k", "!", "0">>

\* what a solver reports for X_1 and for X_2 when it reports both
ReportedPairs ==
    {<<[sort |-> SortToString("Int"), val |-> <<"1", "0">>],
       [sort |-> BitVecSort, val |-> <<"#", "b", "1">>]>>,
     <<[sort |-> BitVecSort, val |-> <<"#", "x", "0", "0", "0", "0", "0", "0", "0", "a">>],
       [sort |-> BitVecSort, val |-> <<"#", "x", "1", "0">>]>>,
     <<[sort |-> BitVecSort, val |-> <<"#", "x", "1", "0">>],
       [sort |-> BitVecSort, val |-> <<"#", "b", "1">>]>>,
     <<[sort |-> SortToString("Bool"), val |-> <<"t", "r", "u", "e">>],
       [sort |-> SortToString("Int"), val |-> <<"1", "0">>]>>}

\* models of no block, of one block, and of a block for X_1 followed by one
\* for X_2
ParseModels ==
    {<<>>,
     <<Block(NameX1, SortToString("Int"), TooLarge)>>,
     <<Block(AuxName, SortToString("Int"), <<"1", "0">>)>>}
    \cup {<<Block(n, v.sort, v.val)>> : n \in {NameX1, NameX2}, v \in ReportedValues}
    \cup {<<Block(NameX1, vw[1].sort, vw[1].val), Block(NameX2, vw[2].sort, vw[2].val)>> :
            vw \in ReportedPairs}

\* the solver answers "sat\n" and then prints a model
ParsePlans == ReadPlans({ReadOk(SatLine)}, {ReadOk(<<>>)}, ParseModels, {})

InitParse == new({"QF_LIA"}) /\ init({TRUE})

NextParse ==
    \/ new_var(Anonymous, {"Int"}, MaxSessionNodes)
    \/ Solve(ParsePlans)
    \/ SolveWithTimeout(Timeouts, ParsePlans)

SpecParse == InitParse /\ [][NextParse]_vars

\* ------------------------------------------------------------- a graph of any values
\* assert takes any value of the logic, a constant as well as a function
InitValues == new({"QF_LIA"}) /\ init({TRUE})

NextValues ==
    \/ new_const({FiveConst}, MaxNodes)
    \/ assert({FiveConst, EqFn}, MaxNodes)
    \/ CallGenerateAsserts
    \/ CallExpandAssertion

SpecValues == InitValues /\ [][NextValues]_vars

\* ------------------------------------------------------------- a session of variables
\* variables with and without a name, names given twice and names of the
\* generated form among them
InitNames == new({"QF_LIA"}) /\ init({TRUE})

NextNames ==
    \/ new_var(Anonymous, {"Int"}, MaxNodes)
    \/ new_var(Named({NameA, NameX2}), Sorts, MaxNodes)
    \/ CallGenerateAsserts

SpecNames == InitNames /\ [][NextNames]_vars

\* ------------------------------------------------------------- reading the output
RECURSIVE SplitLinesFrom(_, _, _)
SplitLinesFrom(text, cur, acc) ==
    IF text = <<>> THEN (IF cur = <<>> THEN acc ELSE Append(acc, cur))
    ELSE IF Head(text) = "\n" THEN SplitLinesFrom(Tail(text), <<>>, Append(acc, cur))
    ELSE SplitLinesFrom(Tail(text), Append(cur, Head(text)), acc)

\* the lines of a text, without their line ends
SplitLines(text) == SplitLinesFrom(text, <<>>, <<>>)

StartsWith(line, prefix) ==
    /\ Len(line) >= Len(prefix)
    /\ SubSeq(line, 1, Len(prefix)) = prefix

Occurrences(lines, l) == Cardinality({i \in DOMAIN lines : lines[i] = l})

OutEdges(ni) == {e \in DOMAIN edges : edges[e].source = ni}

\* the target of ni's edge tagged with ordinal i
OperandAt(ni, i) ==
    edges[CHOOSE e \in OutEdges(ni) : edges[e].weight = i].target

\* The reference expansion: a function node is its rendering and the
\* expansions of its operands by ascending ordinal, in parentheses; any
\* other node is its rendering.
RECURSIVE RefExpand(_)
RECURSIVE RefOperands(_, _, _)
RefOperands(ni, i, n) ==
    IF i >= n THEN <<>>
    ELSE <<" ">> \o RefExpand(OperandAt(ni, i)) \o RefOperands(ni, i + 1, n)

RefExpand(ni) ==
    IF is_fn(nodes[ni + 1])
    THEN <<"(">> \o nodes[ni + 1].text
             \o RefOperands(ni, 0, Cardinality(OutEdges(ni))) \o <<")">>
    ELSE nodes[ni + 1].text

RefDeclLine(name) ==
    <<"(", "d", "e", "c", "l", "a", "r", "e", "-", "f", "u", "n", " ">> \o name
        \o <<" ", "(", ")", " ">> \o SortToString(var_map[name].sort) \o <<")">>

RefAssertLine(ni) ==
    <<"(", "a", "s", "s", "e", "r", "t", " ">> \o RefExpand(ni) \o <<")">>

IsDeclLine(l) == StartsWith(l, <<"(", "d", "e", "c", "l", "a", "r", "e", "-", "f", "u", "n", " ">>)
IsAssertLine(l) == StartsWith(l, <<"(", "a", "s", "s", "e", "r", "t", " ">>)

VarEntries == {name \in DOMAIN var_map : nodes[var_map[name].idx + 1].isVar}

BoolFnRoots ==
    {ni \in NodeIndices :
        /\ \A e \in DOMAIN edges : edges[e].target # ni
        /\ ~nodes[ni + 1].isVar /\ ~nodes[ni + 1].isConst /\ nodes[ni + 1].isBool}

Generated == last.op = "generate_asserts"
GeneratedLines == SplitLines(last.ret.val)

\* ------------------------------------------------------------- claims
\* C5: generate_asserts emits exactly one (declare-fun NAME () SORT) line
\* per variable-registry entry whose node is_var, with the registry's name
\* and sort, no other declare-fun line, whatever the order in which the
\* registry is iterated, and every declaration line before every assert
\* line.
C5_Declarations ==
    Generated =>
        LET lines == GeneratedLines
        IN  /\ \A name \in VarEntries : Occurrences(lines, RefDeclLine(name)) = 1
            /\ \A i \in DOMAIN lines :
                   IsDeclLine(lines[i]) =>
                       \E name \in VarEntries : lines[i] = RefDeclLine(name)
            /\ \A i, j \in DOMAIN lines :
                   IsDeclLine(lines[i]) /\ IsAssertLine(lines[j]) => i < j

\* two variables and an assertion relating them, the declarations emitted
\* in the reverse of the order of registration
C5_Witness ==
    /\ Generated
    /\ Cardinality(VarEntries) = 2
    /\ \E ni \in BoolFnRoots : Cardinality(OutEdges(ni)) = 2
    /\ LET lines == GeneratedLines
       IN  \E a, b \in VarEntries :
               /\ var_map[a].idx < var_map[b].idx
               /\ lines[1] = RefDeclLine(b)
               /\ lines[2] = RefDeclLine(a)
               /\ IsAssertLine(lines[3])

\* C6: generate_asserts emits exactly one (assert E) line, E the expansion
\* of the node, per node without incoming edges that is_fn and is_bool, and
\* no other assert line.
C6_Assertions ==
    Generated =>
        LET lines == GeneratedLines
            expected == {RefAssertLine(ni) : ni \in BoolFnRoots}
            emitted == {lines[i] : i \in {j \in DOMAIN lines : IsAssertLine(lines[j])}}
        IN  /\ emitted = expected
            /\ \A l \in expected :
                   Occurrences(lines, l) =
                       Cardinality({ni \in BoolFnRoots : RefAssertLine(ni) = l})

\* a boolean function node used as an operand by a later assert, beside a
\* non-boolean root: only the later node is emitted
C6_Witness ==
    /\ Generated
    /\ \E e \in DOMAIN edges :
           /\ nodes[edges[e].target + 1] = EqFn
           /\ edges[e].source \in BoolFnRoots
    /\ \E ni \in NodeIndices :
           nodes[ni + 1] = AddFn /\ \A e \in DOMAIN edges : edges[e].target # ni
    /\ Cardinality({i \in DOMAIN GeneratedLines : IsAssertLine(GeneratedLines[i])}) = 1

\* C7: expand_assertion returns the reference expansion (operands by
\* ascending ordinal, function nodes parenthesized, leaves bare) whatever
\* order the graph store enumerates the edges in.
C7_Expansion ==
    last.op = "expand_assertion" => last.ret.val = RefExpand(last.arg.ni)

\* a function node with two different operands, its edges enumerated out of
\* ordinal order
C7_Witness ==
    /\ last.op = "expand_assertion"
    /\ last.arg.scrambled
    /\ is_fn(nodes[last.arg.ni + 1])
    /\ Cardinality(OutEdges(last.arg.ni)) = 2
    /\ RefExpand(OperandAt(last.arg.ni, 0)) # RefExpand(OperandAt(last.arg.ni, 1))
    /\ last.ret.val = RefExpand(last.arg.ni)

\* ------------------------------------------------------------- reading a call
CheckSatCalled == last.op \in {"check_sat", "check_sat_with_timeout"}
SolveCalled == last.op \in {"solve", "solve_with_timeout"}

ReadsOf(io) == SelectSeq(io, LAMBDA ev : ev.kind = "read")
WritesOf(io) == SelectSeq(io, LAMBDA ev : ev.kind = "write")

WroteGetModel(io) ==
    \E k \in DOMAIN io :
        /\ io[k].kind = "write"
        /\ io[k].text = <<"(", "g", "e", "t", "-", "m", "o", "d", "e", "l", ")", "\n">>

\* the answer to the read that follows (check-sat)
VerdictRead(io) == ReadsOf(io)[1].res

AnsweredSat(res) == res.ok /\ res.s = <<"s", "a", "t", "\n">>

\* C1: check_sat, unbounded or with a timeout, makes a single read and
\* returns Ok(true) if and only if the payload read is exactly "sat\n";
\* every other payload read returns Ok(false), never an error.
C1_Verdict ==
    CheckSatCalled =>
        /\ Len(ReadsOf(last.io)) = 1
        /\ VerdictRead(last.io).ok =>
               /\ last.ret.tag = "ok"
               /\ last.ret.val = (VerdictRead(last.io).s = <<"s", "a", "t", "\n">>)

\* the timeout variant reads "unsat\n", which ends in "sat\n", and returns
\* Ok(false)
C1_Witness ==
    /\ last.op = "check_sat_with_timeout"
    /\ VerdictRead(last.io) = ReadOk(<<"u", "n", "s", "a", "t", "\n">>)
    /\ last.ret = OkRet(FALSE)

\* C2: solve and solve_with_timeout write (get-model) only if their
\* check_sat returned Ok(true); on Ok(false) they return Err(Unsat), on an
\* error Err(Undefined), and in both cases nothing is written or read after
\* the read of the verdict.
C2_ModelOnlyWhenSat ==
    SolveCalled =>
        LET verdict == VerdictRead(last.io)
            stopped == /\ Len(last.io) = 3
                       /\ last.io[3].kind = "read"
                       /\ ~WroteGetModel(last.io)
        IN  /\ WroteGetModel(last.io) => AnsweredSat(verdict)
            /\ (verdict.ok /\ ~AnsweredSat(verdict)) =>
                   last.ret = ErrRet("Unsat") /\ stopped
            /\ ~verdict.ok => last.ret = ErrRet("Undefined") /\ stopped

\* solve_with_timeout on a solver that answers "unsat\n"
C2_Witness ==
    /\ last.op = "solve_with_timeout"
    /\ VerdictRead(last.io) = ReadOk(<<"u", "n", "s", "a", "t", "\n">>)
    /\ last.ret = ErrRet("Unsat")
    /\ Len(last.io) = 3
    /\ nodes # <<>>

\* the child answers a read later than its timeout, or not at all
TimeoutShorterThanLatency ==
    /\ proc.timeout.some
    /\ proc.child.answers => proc.timeout.v < proc.child.after

\* C3 (as claimed): a read with a timeout shorter than the latency of the
\* child, a silent child included, keeps the caller no longer than the
\* timeout and returns Err(Timeout), whatever the byte read is doing.
C3_TimeoutBoundsTheRead ==
    TimeoutShorterThanLatency =>
        /\ InRead => proc.elapsed <= proc.timeout.v
        /\ proc.pc = "returned" => proc.ret = ReadErr("Timeout")

\* C4 (as claimed): every read solve_with_timeout performs, the read of the
\* verdict and both reads after (get-model), is bounded by the caller's
\* timeout.
C4_EveryReadBounded ==
    last.op = "solve_with_timeout" =>
        \A k \in DOMAIN last.io :
            last.io[k].kind = "read" => last.io[k].timeout = last.arg.timeout

\* the name the i-th anonymous variable of a session is to get
RefGeneratedName(i) == <<"X", "_", DigitChars[i + 1]>>

AllAnonymous == \A i \in DOMAIN newVarLog : ~newVarLog[i].given.some

\* C8: in a session whose new_var calls all omit the name, the i-th call
\* registers its variable under X_i, the counter having started at 0,
\* whatever other calls are made in between.
C8_AnonymousNames ==
    AllAnonymous =>
        /\ var_index = Len(newVarLog)
        /\ \A i \in DOMAIN newVarLog :
               /\ newVarLog[i].name = RefGeneratedName(i)
               /\ RefGeneratedName(i) \in DOMAIN var_map
               /\ var_map[RefGeneratedName(i)].idx = newVarLog[i].idx
               /\ idx_map[newVarLog[i].idx] = RefGeneratedName(i)

\* two anonymous variables, then a solve that returns a model
C8_Witness ==
    /\ Len(newVarLog) = 2
    /\ AllAnonymous
    /\ newVarLog[2].name = <<"X", "_", "2">>
    /\ var_map[<<"X", "_", "2">>].idx = Len(nodes) - 1
    /\ last.op = "solve"
    /\ last.ret.tag = "ok"

AnonymousCalls(n) == Cardinality({i \in 1..n : ~newVarLog[i].given.some})

\* C9 (as claimed): only new_var calls without a name increment the
\* counter, so the k-th anonymous variable is named X_k even with named
\* calls in between.
C9_CounterCountsAnonymous ==
    /\ var_index = AnonymousCalls(Len(newVarLog))
    /\ \A i \in DOMAIN newVarLog :
           ~newVarLog[i].given.some =>
               newVarLog[i].name = RefGeneratedName(AnonymousCalls(i))

\* ------------------------------------------------------------- reading a model
IsNumeral(val) ==
    LET body == SubSeq(val, 3, Len(val))
    IN  \/ val # <<>> /\ Range(val) \subseteq {"0", "1", "2", "3", "4", "5", "6", "7", "8", "9"}
        \/ /\ Len(val) > 2 /\ val[1] = "#" /\ val[2] = "x"
           /\ Range(body) \subseteq
                  {"0", "1", "2", "3", "4", "5", "6", "7", "8", "9", "a", "b", "c", "d", "e", "f"}
        \/ Len(val) > 2 /\ val[1] = "#" /\ val[2] = "b" /\ Range(body) \subseteq {"0", "1"}

IsIdentifier(name) == name # <<>> /\ Range(name) \subseteq (Letters \cup Digits \cup {"_"})

\* the blocks of a model that the pattern of the parser matches
Reported(blocks) ==
    {k \in DOMAIN blocks : IsIdentifier(blocks[k].name) /\ IsNumeral(blocks[k].val)}

\* a numeral short enough to be below 2^31
IsSmall(val) == Len(val) <= 9

RefDigit(c) == CHOOSE d \in 0..15 :
    <<"0", "1", "2", "3", "4", "5", "6", "7", "8", "9", "a", "b", "c", "d", "e", "f">>[d + 1] = c

RECURSIVE RefNumber(_, _)
RefNumber(digits, radix) ==
    IF digits = <<>> THEN 0
    ELSE RefNumber(SubSeq(digits, 1, Len(digits) - 1), radix) * radix
             + RefDigit(digits[Len(digits)])

\* the number a numeral stands for
RefValue(val) ==
    IF val[1] = "#"
    THEN RefNumber(SubSeq(val, 3, Len(val)), IF val[2] = "x" THEN 16 ELSE 2)
    ELSE RefNumber(val, 10)

\* a number below 2^32 as the u64 of the result
AsU64(n) == <<n % 65536, n \div 65536, 0, 0>>

RegisteredHandles == {var_map[name].idx : name \in DOMAIN var_map}

\* C10: solve (either variant) maps, for every block of the model whose
\* name is registered, the handle registered under the name to the value of
\* the block read as hexadecimal after #x, as binary after #b and as
\* decimal otherwise; the result has entries only for reported variables
\* and its keys are registered handles. A model of small numerals for
\* registered names always gives such a result.
C10_ModelValues ==
    (SolveCalled /\ last.ret.tag \in {"ok", "panic"}) =>
        LET blocks == last.arg.blocks
            reported == Reported(blocks)
            result == last.ret.val
        IN  /\ (\A k \in reported :
                    blocks[k].name \in DOMAIN var_map /\ IsSmall(blocks[k].val))
                   => last.ret.tag = "ok"
            /\ last.ret.tag = "ok" =>
                   /\ \A k \in reported :
                          blocks[k].name \in DOMAIN var_map =>
                              LET h == var_map[blocks[k].name].idx
                              IN  /\ h \in DOMAIN result
                                  /\ result[h] = AsU64(RefValue(blocks[k].val))
                   /\ DOMAIN result \subseteq RegisteredHandles
                   /\ \A h \in DOMAIN result :
                          \E k \in reported :
                              /\ blocks[k].name \in DOMAIN var_map
                              /\ var_map[blocks[k].name].idx = h

\* X_1 reported as #x10 and X_2 as #b1
C10_Witness ==
    /\ last.op = "solve"
    /\ last.ret.tag = "ok"
    /\ Len(last.arg.blocks) = 2
    /\ last.arg.blocks[1].val = <<"#", "x", "1", "0">>
    /\ last.arg.blocks[2].val = <<"#", "b", "1">>
    /\ last.ret.val = (0 :> <<16, 0, 0, 0>>) @@ (1 :> <<1, 0, 0, 0>>)

\* ------------------------------------------------------------- what check_sat sends
\* the lines a text ends, as a set
LineSet(text) == Range(SplitLines(text))

\* whether a text is the lines of the current graph and nothing else: one
\* declaration per variable entry, one assertion per boolean function
\* root, each line ended
IsTextOfGraph(text) ==
    LET lines == SplitLines(text)
        expected == {RefDeclLine(name) : name \in VarEntries}
                        \cup {RefAssertLine(ni) : ni \in BoolFnRoots}
    IN  /\ LineSet(text) = expected
        /\ Len(lines) = Cardinality(VarEntries) + Cardinality(BoolFnRoots)
        /\ text # <<>> => text[Len(text)] = "\n"

\* C11 (amended): every check_sat call, of either variant, writes the text
\* of the whole current graph, then (check-sat), and then reads once; the
\* text holds the declaration of every variable entry and the assertion of
\* every boolean function root the graph has at the time of the call.
C11_FullTextThenCheckSat ==
    CheckSatCalled =>
        /\ Len(last.io) = 3
        /\ last.io[1].kind = "write"
        /\ IsTextOfGraph(last.io[1].text)
        /\ last.io[2].kind = "write"
        /\ last.io[2].text = <<"(", "c", "h", "e", "c", "k", "-", "s", "a", "t", ")", "\n">>
        /\ last.io[3].kind = "read"

\* a check_sat with a timeout on a graph of a variable and an assertion
\* about it
C11_Witness ==
    /\ last.op = "check_sat_with_timeout"
    /\ Cardinality(VarEntries) = 1
    /\ \E ni \in BoolFnRoots : Cardinality(OutEdges(ni)) = 2
    /\ Len(SplitLines(last.io[1].text)) = 2
    /\ IsDeclLine(SplitLines(last.io[1].text)[1])
    /\ IsAssertLine(SplitLines(last.io[1].text)[2])

\* C11 (as claimed): every line a check_sat has sent is sent again by a
\* check_sat called later, whatever was added to the graph in between.
C11_SentAgainByLaterCalls ==
    [][CheckSatCalled =>
           \A text \in GeneratedTexts' : LineSet(last.io[1].text) \subseteq LineSet(text)]_vars

\* ------------------------------------------------------------- what solve reads
\* the result a model of the given blocks, all of small numerals, stands
\* for: the value of each reported block under the handle of its name
RefResult(blocks) ==
    LET reported == Reported(blocks)
        handles == {var_map[blocks[k].name].idx : k \in reported}
    IN  [h \in handles |->
            AsU64(RefValue(blocks[CHOOSE k \in reported :
                                      var_map[blocks[k].name].idx = h].val))]

GetModelWrites(io) ==
    {k \in DOMAIN io :
        /\ io[k].kind = "write"
        /\ io[k].text = <<"(", "g", "e", "t", "-", "m", "o", "d", "e", "l", ")", "\n">>}

\* C12: once its check_sat has returned true, solve (either variant)
\* writes (get-model) once and then reads twice, and nothing more; what
\* the first of the two reads returned, text or error, has no part in the
\* result, which is the parse of the text of the second read.
C12_SecondReadIsTheModel ==
    (SolveCalled /\ AnsweredSat(VerdictRead(last.io))) =>
        /\ Len(last.io) = 6
        /\ GetModelWrites(last.io) = {4}
        /\ last.io[5].kind = "read"
        /\ last.io[6].kind = "read"
        /\ (last.io[6].res.ok
               /\ \A k \in Reported(last.arg.blocks) :
                      last.arg.blocks[k].name \in DOMAIN var_map)
              => last.ret = OkRet(RefResult(last.arg.blocks))
        /\ ~last.io[6].res.ok => last.ret.tag = "err"

\* the first read after (get-model) fails, the second returns a model with
\* X_1 = 10, and solve_with_timeout returns that model
C12_Witness ==
    /\ last.op = "solve_with_timeout"
    /\ AnsweredSat(VerdictRead(last.io))
    /\ ~last.io[5].res.ok
    /\ last.io[6].res.ok
    /\ last.ret = OkRet(0 :> <<10, 0, 0, 0>>)

\* ------------------------------------------------------------- failed reads
FailedReads(io) == {k \in DOMAIN io : io[k].kind = "read" /\ ~io[k].res.ok}

\* C13 (amended): a failed read of the verdict, and a failed second read
\* after (get-model), are returned as errors and not retried: Undefined by
\* check_sat and solve, Timeout by check_sat_with_timeout and (for the
\* model) solve_with_timeout; no call returns AssertionError. (The failure
\* of the first read after (get-model) is not returned.)
C13_ReadFailuresAsErrors ==
    /\ (CheckSatCalled /\ ~VerdictRead(last.io).ok) =>
           /\ last.ret = IF last.op = "check_sat" THEN ErrRet("Undefined")
                         ELSE ErrRet("Timeout")
           /\ Len(ReadsOf(last.io)) = 1
    /\ (SolveCalled /\ ~VerdictRead(last.io).ok) =>
           /\ last.ret = ErrRet("Undefined")
           /\ Len(ReadsOf(last.io)) = 1
    /\ (SolveCalled /\ Len(ReadsOf(last.io)) > 1 /\ ~ReadsOf(last.io)[3].res.ok) =>
           /\ last.ret = IF last.op = "solve" THEN ErrRet("Undefined")
                         ELSE ErrRet("Timeout")
           /\ Len(ReadsOf(last.io)) = 3
    /\ last.ret.tag = "err" => last.ret.val \in {"Timeout", "Undefined", "Unsat"}

\* the second read after (get-model) fails in solve_with_timeout, the
\* first having returned
C13_Witness ==
    /\ last.op = "solve_with_timeout"
    /\ FailedReads(last.io) = {6}
    /\ last.ret = ErrRet("Timeout")

\* C13 (as claimed): every failure of a read is returned to the caller as
\* an error.
C13_EveryFailureReturned ==
    FailedReads(last.io) # {} => last.ret.tag = "err"

\* ------------------------------------------------------------- the edges of a node
TagsOf(ni) == {edges[e].weight : e \in OutEdges(ni)}

\* the tags on the outgoing edges of every node are 0..n-1, each once
TagsAreOrdinals ==
    \A ni \in NodeIndices :
        /\ TagsOf(ni) = 0..(Cardinality(OutEdges(ni)) - 1)
        /\ \A e, f \in OutEdges(ni) : edges[e].weight = edges[f].weight => e = f

\* the call just made was assert, and the edges of the node it returned
\* are its operand list: as many, the one tagged i to the i-th operand
AssertedOperands ==
    last.op = "assert" =>
        LET ni == last.ret.val
            ops == last.arg.ops
        IN  /\ Cardinality(OutEdges(ni)) = Len(ops)
            /\ \A i \in DOMAIN ops :
                   \E e \in OutEdges(ni) :
                       edges[e].weight = i - 1 /\ edges[e].target = ops[i]

\* the call just made was new_var or new_const, and the node it returned
\* has no outgoing edge
CreatedWithoutEdges ==
    last.op \in {"new_var", "new_const"} => OutEdges(last.ret.val) = {}

\* C14: after every new_var, new_const and assert call the node created has
\* the edges of its operand list (none for new_var and new_const), tagged
\* 0..n-1 in the order of the list; no call changes or removes the edges a
\* node has, so in every state the tags of every node are 0..n-1, each once.
C14_OrdinalTags ==
    [][/\ TagsAreOrdinals'
       /\ AssertedOperands'
       /\ CreatedWithoutEdges'
       /\ \A ni \in NodeIndices : {edges'[e] : e \in OutEdges(ni)'} = {edges[e] : e \in OutEdges(ni)}]_vars

\* an assert with the operand list (node 1, node 0)
C14_Witness ==
    /\ last.op = "assert"
    /\ last.arg.ops = <<1, 0>>
    /\ \E e, f \in OutEdges(last.ret.val) :
           /\ edges[e].weight = 0 /\ edges[e].target = 1
           /\ edges[f].weight = 1 /\ edges[f].target = 0

\* ------------------------------------------------------------- what a call changes
Readers ==
    {"set_logic", "generate_asserts", "expand_assertion", "check_sat",
     "check_sat_with_timeout", "solve", "solve_with_timeout"}

Builders == {"new_var", "new_const", "assert"}

IsPrefix(s, t) == Len(s) <= Len(t) /\ SubSeq(t, 1, Len(s)) = s

\* the name the step registers, if it is a new_var step
RegisteredByStep ==
    IF Len(newVarLog') > Len(newVarLog) THEN {newVarLog'[Len(newVarLog')].name} ELSE {}

C16_LeafIsItsRendering ==
    (last.op = "expand_assertion" /\ ~is_fn(nodes[last.arg.ni + 1])) =>
        last.ret.val = nodes[last.arg.ni + 1].text

\* C17 (as claimed): a block of the model whose name is not registered
\* contributes no entry and does not make solve fail: a model that has
\* been read is returned as Ok, with the entries of the registered names.
C17_UnknownNamesIgnored ==
    (/\ SolveCalled
     /\ Len(last.io) = 6
     /\ last.io[6].res.ok
     /\ \A k \in Reported(last.arg.blocks) : IsSmall(last.arg.blocks[k].val)) =>
        /\ last.ret.tag = "ok"
        /\ DOMAIN last.ret.val =
               {var_map[last.arg.blocks[k].name].idx :
                   k \in {j \in Reported(last.arg.blocks) :
                             last.arg.blocks[j].name \in DOMAIN var_map}}

\* ------------------------------------------------------------- the two registries
\* C18 (as claimed): the reverse registry maps handle h to name s exactly
\* when the forward registry maps s to h, and every handle new_var has
\* returned is the forward-registry handle of its reverse-registry name.
C18_RegistriesInverse ==
    /\ \A h \in DOMAIN idx_map :
           idx_map[h] \in DOMAIN var_map /\ var_map[idx_map[h]].idx = h
    /\ \A s \in DOMAIN var_map :
           var_map[s].idx \in DOMAIN idx_map /\ idx_map[var_map[s].idx] = s
    /\ \A i \in DOMAIN newVarLog :
           var_map[idx_map[newVarLog[i].idx]].idx = newVarLog[i].idx

\* C19 (as claimed): a new_var call without a name registers a name that
\* was not registered before, so the forward registry gains an entry.
C19_GeneratedNameIsFresh ==
    [][(Len(newVarLog') > Len(newVarLog) /\ ~newVarLog'[Len(newVarLog')].given.some) =>
           /\ newVarLog'[Len(newVarLog')].name \notin DOMAIN var_map
           /\ Cardinality(DOMAIN var_map') = Cardinality(DOMAIN var_map) + 1]_vars

\* ------------------------------------------------------------- the depth of a node
\* how deep the recursion of expand_assertion goes below ni, followed for
\* at most fuel levels
RECURSIVE DepthWithin(_, _)
DepthWithin(ni, fuel) ==
    IF fuel = 0 \/ OutEdges(ni) = {} THEN 0
    ELSE LET below == {DepthWithin(edges[e].target, fuel - 1) : e \in OutEdges(ni)}
         IN  1 + CHOOSE d \in below : \A o \in below : o <= d

\* C20: every edge goes from a node to a node issued strictly earlier, so
\* the recursion of expand_assertion below node ni is at most ni deep and
\* ends on every node.
C20_EdgesGoBack ==
    /\ \A e \in DOMAIN edges :
           /\ edges[e].target < edges[e].source
           /\ edges[e].source \in NodeIndices /\ edges[e].target \in NodeIndices
    /\ \A ni \in NodeIndices : DepthWithin(ni, Len(nodes) + 1) <= ni

\* a chain of three nodes, the last expanded through the other two
C20_Witness ==
    /\ last.op = "expand_assertion"
    /\ last.arg.ni = 2
    /\ DepthWithin(2, 3) = 2
    /\ \E e, f \in DOMAIN edges :
           /\ edges[e].source = 2 /\ edges[e].target = 1
           /\ edges[f].source = 1 /\ edges[f].target = 0

====
